---- MODULE Spec2Model ----
(***************************************************************************)
(* Intergalactic Bank API: the transaction processor (POST                 *)
(* /api/v1/transactions), the two stores behind it (the PostgreSQL         *)
(* Database and the in-memory MockDatabase) and the account operations     *)
(* that share the accounts table with it.                                  *)
(*                                                                         *)
(* A request handled over the PostgreSQL store is a process: every await   *)
(* of the handler and of Database.createTransaction is a point where other *)
(* requests run.  The MockDatabase never waits for I/O, so a request       *)
(* handled over it runs to completion in one step.                         *)
(*                                                                         *)
(* AccountsSpec is the account API by itself: the two accounts routers     *)
(* with the validateApiKey and requireAdmin middleware and the key store.  *)
(* ReadSpec is the transaction read path applied to any table of records.  *)
(* CreateSpec is POST /api/v1/accounts with bodies that carry a balance.   *)
(* StoreSpec calls the methods of the two stores side by side on the same  *)
(* tables.  PoolSpec is Database.createTransaction alone, statement by     *)
(* statement, with the connection pool and PostgreSQL's row locks;         *)
(* PoolLiveSpec adds the fairness of the runtime and of the server.        *)
(***************************************************************************)
EXTENDS Integers, FiniteSets, Sequences, TLC

VARIABLES
  backend,       \* which store the server was constructed with
  accounts,      \* accounts table / MockDatabase.accounts: id -> row
  transactions,  \* transactions table / MockDatabase.transactions: id -> row
  proc,          \* the in-flight transaction requests
  expected,      \* history: opening balance plus the committed calls' amounts
  ops,           \* number of changes made to accounts by account requests
  keys,          \* api_keys table / MockDatabase.apiKeys
  call,          \* the last account, key or read request and its answer
  pool           \* the connection pool: its size, and per call of
                 \* createTransaction the clients acquired and released

vars == <<backend, accounts, transactions, proc, expected, ops, keys, call, pool>>

----------------------------------------------------------------------------
(* Bounds of the model *)

MaxAmount == 1

MaxTxId == 2

MaxAccountOps == 1

\* Changes of accounts made through the account routes.
MaxAccountChanges == 2

\* Transaction records in a table the read path is applied to.
MaxRecords == 2

\* Calls made on the interface of a store, one after another.
MaxStoreCalls == 2

\* Clients the connection pool hands out at a time.
PoolSize == 2

----------------------------------------------------------------------------
(* Domains *)

AccountIds == {"a1", "a2", "a3"}

DepositSource == "0"

Currencies == {"COSMIC_COINS", "GALAXY_GOLD"}

Requests == {"r1", "r2"}

Amounts == 0..MaxAmount

TxIds == 1..MaxTxId

SeedTxId == 0

\* The balances accounts are opened with.
OpeningBalances == {0}

NoRows == [a \in {} |-> 0]

\* The key with admin privileges: process.env.ADMIN_API_KEY || '1234'.
AdminKey == "1234"

ApiKeys == {AdminKey, "k1", "k2"}

Owners == {"Nova", "Gary"}

AccountTypes == {"STANDARD", "PREMIUM"}

\* created_at is a day: the day of the sample transaction and the current day.
SeedDay == "2024-01-10"

Today == "today"

Days == {SeedDay, Today}

\* No request answered yet.
NoCall == [route |-> "none"]

\* No call of createTransaction has acquired a client of the pool.
NoClients ==
  [max |-> PoolSize, acquired |-> [r \in Requests |-> 0],
   released |-> [r \in Requests |-> 0]]

----------------------------------------------------------------------------
(* Rows *)

\* An accounts row as the sample data has it: owned by the first sample owner
\* under the default key (created_at is not carried).
AccountRow(balance, currency) ==
  [balance |-> balance, currency |-> currency, deleted |-> FALSE,
   owner |-> "Nova", accountType |-> "STANDARD", apiKey |-> AdminKey]

\* A transactions row, created today.
TxRow(data) ==
  [from |-> data.from, to |-> data.to, amount |-> data.amount,
   currency |-> data.currency, createdAt |-> Today]

\* Sample data: two COSMIC_COINS accounts and one transfer between them.
SeedAccounts ==
  ("a1" :> AccountRow(1, "COSMIC_COINS")) @@ ("a2" :> AccountRow(0, "COSMIC_COINS"))

SeedTransactions ==
  (SeedTxId :> [from |-> "a1", to |-> "a2", amount |-> 1, currency |-> "COSMIC_COINS",
                createdAt |-> SeedDay])

----------------------------------------------------------------------------
(* Account model *)

updateBalance(balance, amount) == balance + amount

\* Variant: the comparison the wrong way round.
hasSufficientFundsReversed(balance, amount) == amount >= balance

\* Variant: the comparison is strict.
hasSufficientFundsStrict(balance, amount) == balance > amount

hasSufficientFunds(balance, amount) == balance >= amount

----------------------------------------------------------------------------
(* Reads of the store *)

\* Variant: the row is mapped without its deleted column, which then reads as
\* not deleted.
getAccountByIdDropsDeleted(id) ==
  IF id \in DOMAIN accounts THEN {[accounts[id] EXCEPT !.deleted = FALSE]} ELSE {}

\* getAccountById returns the row whatever its deleted flag, or null.
getAccountById(id) == IF id \in DOMAIN accounts THEN {accounts[id]} ELSE {}

\* The account a successful lookup returned.
TheAccount(found) == CHOOSE a \in found : TRUE

getTransactionById(id) == IF id \in DOMAIN transactions THEN {transactions[id]} ELSE {}

----------------------------------------------------------------------------
(* Validation rules of the transaction processor, in the order applied *)

\* 1. amount must be a finite number > 0
AmountValid(amount) == amount > 0

\* 2./3. the id must resolve to an existing, non-deleted account
Resolves(found) == found # {} /\ \A a \in found : ~a.deleted

\* Variant: rule 4 is left out.
CurrencyIgnored(currency, toCurrency) == TRUE

\* 4. currency must equal the destination account's currency
CurrencyMatches(currency, toCurrency) == currency = toCurrency

\* 5. source balance must be >= amount
FundsSuffice(balance, amount) == hasSufficientFunds(balance, amount)

----------------------------------------------------------------------------
(* Requests in flight *)

Idle ==
  [pc |-> "idle", from |-> DepositSource, to |-> "a1", amount |-> 0,
   currency |-> "COSMIC_COINS", toCurrency |-> "", rows |-> NoRows, txId |-> 0,
   resp |-> "none", late |-> FALSE, err |-> "", several |-> FALSE, exact |-> FALSE]

DataOf(p) ==
  [from |-> p.from, to |-> p.to, amount |-> p.amount, currency |-> p.currency]

\* Whether the request names an account that is soft-deleted already.
NamesDeleted(f, t) ==
  \/ t \in DOMAIN accounts /\ accounts[t].deleted
  \/ f # DepositSource /\ f \in DOMAIN accounts /\ accounts[f].deleted

\* The destination lookup of request p returned an account that is not deleted:
\* the one made before the source lookup, or the one made now.
SeenToLive(p) ==
  \/ p.toCurrency # ""
  \/ p.to \in DOMAIN accounts /\ ~accounts[p.to].deleted

\* The rules, by number, that request p breaks with the accounts as the
\* handler's lookups return them.
Violated(p) ==
  {n \in 1..5 :
     \/ n = 1 /\ p.amount <= 0
     \/ n = 2 /\ ~SeenToLive(p)
     \/ n = 3 /\ p.from # DepositSource
              /\ ~(p.from \in DOMAIN accounts /\ ~accounts[p.from].deleted)
     \/ n = 4 /\ SeenToLive(p)
              /\ p.currency # (IF p.toCurrency # "" THEN p.toCurrency
                               ELSE accounts[p.to].currency)
     \/ n = 5 /\ p.from # DepositSource
              /\ p.from \in DOMAIN accounts /\ ~accounts[p.from].deleted
              /\ accounts[p.from].balance < p.amount}

\* The response is sent and the handler's locals are gone.  What stays is the
\* response, the rule or statement that failed, whether the request had named
\* an account deleted before it arrived, and whether it broke several rules.
Answered(p, resp, err) ==
  [Idle EXCEPT !.pc = "done", !.resp = resp, !.err = err, !.late = p.late,
               !.several = resp # "Created" /\ Cardinality(Violated(p)) > 1]

\* The requests are told apart by their names only: r1 is the first to arrive.
NextToArrive(r) == proc[r].pc = "idle" /\ (r = "r1" \/ proc["r1"].pc # "idle")

\* The committed effect of one createTransaction call on the books.
Booked(exp, data) ==
  [a \in DOMAIN exp |->
     exp[a] + (IF a = data.to THEN data.amount ELSE 0)
            - (IF a = data.from THEN data.amount ELSE 0)]

----------------------------------------------------------------------------
(* PostgreSQL: rows written inside an open unit of work *)

\* Variant: no row lock is taken, a statement reads the committed row at once.
NoRowLock(r, id) == FALSE

\* A row updated inside a unit of work stays locked until COMMIT or ROLLBACK.
LockedByOther(r, id) == \E q \in Requests \ {r} : id \in DOMAIN proc[q].rows

Locked(id) == \E q \in Requests : id \in DOMAIN proc[q].rows

\* Variant: SET balance = $1, the amount instead of the adjusted balance.
SqlUpdateBalanceAssigns(rows, id, delta) ==
  IF id \in DOMAIN accounts
    THEN [a \in DOMAIN rows \cup {id} |-> IF a = id THEN delta ELSE rows[a]]
    ELSE rows

\* UPDATE accounts SET balance = balance + delta WHERE account_id = id,
\* issued on the unit of work's client: the rows the unit of work has written.
\* A missing row matches nothing and the statement succeeds.
SqlUpdateBalance(rows, id, delta) ==
  IF id \in DOMAIN accounts
    THEN [a \in DOMAIN rows \cup {id} |->
            IF a = id
              THEN (IF id \in DOMAIN rows THEN rows[id] ELSE accounts[id].balance) + delta
              ELSE rows[a]]
    ELSE rows

\* INSERT INTO transactions: primary key, foreign key and CHECK (amount > 0).
InsertAccepted(id, data) ==
  /\ id \notin DOMAIN transactions
  /\ data.to \in DOMAIN accounts
  /\ data.amount > 0

\* What COMMIT makes visible.
CommittedAccounts(p) ==
  [a \in DOMAIN accounts |->
     IF a \in DOMAIN p.rows THEN [accounts[a] EXCEPT !.balance = p.rows[a]]
                            ELSE accounts[a]]

CommittedTransactions(p) == transactions @@ (p.txId :> TxRow(DataOf(p)))

----------------------------------------------------------------------------
(* POST /api/v1/transactions *)

\* The request arrives and its body is parsed.
Receive(r, f, t, amt, cur) ==
  /\ NextToArrive(r)
  /\ proc' = [proc EXCEPT ![r] =
       [Idle EXCEPT !.pc = "received", !.from = f, !.to = t, !.amount = amt,
                    !.currency = cur, !.late = NamesDeleted(f, t)]]
  /\ UNCHANGED <<pool, keys, call, backend, accounts, transactions, expected, ops>>

----------------------------------------------------------------------------
(* The handler over the PostgreSQL store *)

\* Where Database.createTransaction starts: pool.connect() and BEGIN change
\* nothing, the first UPDATE is the debit, or the credit for a deposit.
FirstStatement(p) == IF p.from # DepositSource THEN "debit" ELSE "credit"

\* Rule 1, then the destination lookup; rule 2, and for a deposit rule 4.
FetchTo(r) ==
  LET p == proc[r]
      found == getAccountById(p.to)
  IN /\ backend = "pg"
     /\ p.pc = "received"
     /\ proc' = [proc EXCEPT ![r] =
          IF ~AmountValid(p.amount)
            THEN Answered(p, "ValidationFailure", "amount")
            ELSE IF ~Resolves(found)
              THEN Answered(p, "NotFoundFailure", "to")
              ELSE IF p.from # DepositSource
                THEN [p EXCEPT !.pc = "fetchFrom", !.toCurrency = TheAccount(found).currency]
                ELSE IF ~CurrencyMatches(p.currency, TheAccount(found).currency)
                  THEN Answered(p, "ValidationFailure", "currency")
                  ELSE [p EXCEPT !.pc = FirstStatement(p),
                                 !.toCurrency = TheAccount(found).currency]]
     /\ UNCHANGED <<pool, keys, call, backend, accounts, transactions, expected, ops>>

\* The source lookup returns; rules 3, 4 and 5.  A request that goes on keeps
\* whether its amount was the whole of the balance read.
FetchFrom(r) ==
  LET p == proc[r]
      found == getAccountById(p.from)
  IN /\ p.pc = "fetchFrom"
     /\ proc' = [proc EXCEPT ![r] =
          IF ~Resolves(found)
            THEN Answered(p, "NotFoundFailure", "from")
            ELSE IF ~CurrencyMatches(p.currency, p.toCurrency)
              THEN Answered(p, "ValidationFailure", "currency")
              ELSE IF ~FundsSuffice(TheAccount(found).balance, p.amount)
                THEN Answered(p, "InsufficientFundsFailure", "funds")
                ELSE [p EXCEPT !.pc = FirstStatement(p),
                               !.exact = (TheAccount(found).balance = p.amount)]]
     /\ UNCHANGED <<pool, keys, call, backend, accounts, transactions, expected, ops>>

\* Deduct from source (if not a deposit).
Debit(r) ==
  LET p == proc[r]
  IN /\ p.pc = "debit"
     /\ ~LockedByOther(r, p.from)
     /\ proc' = [proc EXCEPT ![r] =
          [p EXCEPT !.pc = "credit",
                    !.rows = SqlUpdateBalance(p.rows, p.from, -p.amount)]]
     /\ UNCHANGED <<pool, keys, call, backend, accounts, transactions, expected, ops>>

\* Add to destination.
Credit(r) ==
  LET p == proc[r]
  IN /\ p.pc = "credit"
     /\ ~LockedByOther(r, p.to)
     /\ proc' = [proc EXCEPT ![r] =
          [p EXCEPT !.pc = "insert",
                    !.rows = SqlUpdateBalance(p.rows, p.to, p.amount)]]
     /\ UNCHANGED <<pool, keys, call, backend, accounts, transactions, expected, ops>>

\* Variant: the catch block rethrows without ROLLBACK and the client goes back
\* to the pool, where its next COMMIT makes the staged rows visible.
RollbackMissing(r, statement) ==
  /\ proc' = [proc EXCEPT ![r] = Answered(proc[r], "ProcessingFailure", statement)]
  /\ accounts' = CommittedAccounts(proc[r])
  /\ UNCHANGED <<transactions, expected>>

\* catch: ROLLBACK and rethrow; finally: release.  The route answers 500.  The
\* rows the unit of work wrote are dropped with their locks; nothing it did is
\* visible to any other client at any time.
Rollback(r, statement) ==
  /\ proc' = [proc EXCEPT ![r] = Answered(proc[r], "ProcessingFailure", statement)]
  /\ UNCHANGED <<accounts, transactions, expected>>

\* Insert transaction record, under the id drawn for this call (the first 8
\* hex digits of a UUID).  An insert of a key another open unit of work has
\* inserted waits for that unit of work to end.
Insert(r, id) ==
  LET p == proc[r]
  IN /\ p.pc = "insert"
     /\ \A q \in Requests \ {r} : proc[q].txId # id
     /\ IF InsertAccepted(id, DataOf(p))
          THEN /\ proc' = [proc EXCEPT ![r] = [p EXCEPT !.pc = "commit", !.txId = id]]
               /\ UNCHANGED <<accounts, transactions, expected>>
          ELSE Rollback(r, "insert")
     /\ UNCHANGED <<pool, keys, call, backend, ops>>

\* COMMIT, then the route answers 201 with the transaction.
Commit(r) ==
  LET p == proc[r]
  IN /\ p.pc = "commit"
     /\ accounts' = CommittedAccounts(p)
     /\ transactions' = CommittedTransactions(p)
     /\ expected' = Booked(expected, DataOf(p))
     /\ proc' = [proc EXCEPT ![r] = Answered(p, "Created", "")]
     /\ UNCHANGED <<pool, keys, call, backend, ops>>

\* A statement of the unit of work throws (connection lost, deadlock victim,
\* statement timeout, ...): control passes to the catch block.
Fail(r) ==
  /\ proc[r].pc \in {"debit", "credit", "insert", "commit"}
  /\ Rollback(r, proc[r].pc)
  /\ UNCHANGED <<pool, keys, call, backend, ops>>

----------------------------------------------------------------------------
(* The handler over the MockDatabase *)

\* Variant: the funds check made before the currency check.
FirstFailureFundsFirst(f, t, amt, cur) ==
  IF ~AmountValid(amt) THEN "amount"
  ELSE IF ~Resolves(getAccountById(t)) THEN "to"
  ELSE IF f # DepositSource /\ ~Resolves(getAccountById(f)) THEN "from"
  ELSE IF f # DepositSource /\ ~FundsSuffice(TheAccount(getAccountById(f)).balance, amt)
    THEN "funds"
  ELSE IF ~CurrencyMatches(cur, TheAccount(getAccountById(t)).currency) THEN "currency"
  ELSE ""

\* The validation sequence applied to the store as it is now: the rule that
\* fails first, or none.
FirstFailure(f, t, amt, cur) ==
  IF ~AmountValid(amt) THEN "amount"
  ELSE IF ~Resolves(getAccountById(t)) THEN "to"
  ELSE IF f # DepositSource /\ ~Resolves(getAccountById(f)) THEN "from"
  ELSE IF ~CurrencyMatches(cur, TheAccount(getAccountById(t)).currency) THEN "currency"
  ELSE IF f # DepositSource /\ ~FundsSuffice(TheAccount(getAccountById(f)).balance, amt)
    THEN "funds"
  ELSE ""

FailureOf(rule) ==
  IF rule \in {"amount", "currency"} THEN "ValidationFailure"
  ELSE IF rule \in {"to", "from"} THEN "NotFoundFailure"
  ELSE "InsufficientFundsFailure"

\* Variant: toAccount.balance = amount, an assignment instead of +=.
MockBalancesAssigns(data) ==
  LET debited ==
        IF data.from # DepositSource /\ data.from \in DOMAIN accounts
          THEN [accounts EXCEPT ![data.from].balance = updateBalance(@, -data.amount)]
          ELSE accounts
  IN IF data.to \in DOMAIN debited
       THEN [debited EXCEPT ![data.to].balance = data.amount]
       ELSE debited

\* MockDatabase.createTransaction: the balance updates.
MockBalances(data) ==
  LET debited ==
        IF data.from # DepositSource /\ data.from \in DOMAIN accounts
          THEN [accounts EXCEPT ![data.from].balance = updateBalance(@, -data.amount)]
          ELSE accounts
  IN IF data.to \in DOMAIN debited
       THEN [debited EXCEPT ![data.to].balance = updateBalance(@, data.amount)]
       ELSE debited

\* MockDatabase.createTransaction: this.transactions.set(transactionId, transaction).
MockTransactions(id, data) ==
  [i \in DOMAIN transactions \cup {id} |->
     IF i = id THEN TxRow(data) ELSE transactions[i]]

\* No call of the MockDatabase waits for I/O: the handler runs from the
\* parsed request to the response without another request running in between.
MockRequest(r, id) ==
  LET p == proc[r]
      rule == FirstFailure(p.from, p.to, p.amount, p.currency)
  IN /\ backend = "mock"
     /\ p.pc = "received"
     /\ IF rule = ""
          THEN /\ accounts' = MockBalances(DataOf(p))
               /\ transactions' = MockTransactions(id, DataOf(p))
               /\ expected' = Booked(expected, DataOf(p))
               /\ proc' = [proc EXCEPT ![r] = Answered(p, "Created", "")]
          ELSE /\ proc' = [proc EXCEPT ![r] = Answered(p, FailureOf(rule), rule)]
               /\ UNCHANGED <<accounts, transactions, expected>>
     /\ UNCHANGED <<pool, keys, call, backend, ops>>

----------------------------------------------------------------------------
(* Account operations and reads *)

\* POST /api/v1/accounts: createAccount stores a row under a generated id (the
\* first 8 hex digits of a UUID, never the id of a sample account).  When the
\* id is taken, the INSERT of the PostgreSQL store fails and nothing changes,
\* while the Map.set of the MockDatabase replaces the account stored under it.
CreateAccount(id, balance, currency) ==
  /\ ops < MaxAccountOps
  /\ id \notin DOMAIN SeedAccounts
  /\ id \in DOMAIN accounts => backend = "mock"
  /\ accounts' = [a \in DOMAIN accounts \cup {id} |->
                    IF a = id THEN AccountRow(balance, currency) ELSE accounts[a]]
  /\ expected' = [a \in DOMAIN expected \cup {id} |->
                    IF a = id THEN balance ELSE expected[a]]
  /\ ops' = ops + 1
  /\ UNCHANGED <<pool, keys, call, backend, transactions, proc>>

\* PATCH /api/v1/accounts/:accountId: updateAccount with a currency in the body.
\* UPDATE ... WHERE account_id = $n AND deleted = FALSE waits for the row's lock;
\* it matches nothing, and the request changes nothing, when the account is
\* missing or deleted.
UpdateAccount(id, currency) ==
  /\ ops < MaxAccountOps
  /\ ~Locked(id)
  /\ id \in DOMAIN accounts /\ ~accounts[id].deleted
  /\ accounts[id].currency # currency
  /\ accounts' = [accounts EXCEPT ![id].currency = currency]
  /\ ops' = ops + 1
  /\ UNCHANGED <<pool, keys, call, backend, transactions, proc, expected>>

\* DELETE /api/v1/accounts/:id: deleteAccount sets the deleted flag; a missing
\* or deleted account is answered 404 and nothing changes.
DeleteAccount(id) ==
  /\ ops < MaxAccountOps
  /\ ~Locked(id)
  /\ id \in DOMAIN accounts /\ ~accounts[id].deleted
  /\ accounts' = [accounts EXCEPT ![id].deleted = TRUE]
  /\ ops' = ops + 1
  /\ UNCHANGED <<pool, keys, call, backend, transactions, proc, expected>>

\* GET of accounts or transactions (list or by id): a SELECT.
Read == UNCHANGED vars

----------------------------------------------------------------------------
(* Values held by the route handlers *)

\* No x-api-key and no api-key header on the request.
NoHeader == "no header"

\* The value of req.apiKey, or of a parameter, that was never set.
Undefined == "undefined"

Headers == ApiKeys \cup {NoHeader}

\* What a handler holds after calling an async method of the store without
\* awaiting it: a Promise, an object with none of the fields and none of the
\* methods of the value it resolves to.
Promise(value) == [promise |-> value]

\* !object: an object, a Promise included, is never falsy.
IsFalsy(object) == FALSE

\* object.field: the value, or nothing (undefined) when the object has no such
\* field.
Field(object, field) == IF field \in DOMAIN object THEN {object[field]} ELSE {}

\* object.toJSON() and object.map(...): a Promise has neither method, and the
\* call throws a TypeError.
CanCall(object) == "promise" \notin DOMAIN object

\* if (body.field): the field is present and not an empty string.
Given(body, field) == Field(body, field) \notin {{}, {""}}

\* The fields of `updates` that updateAccount reads.
Only(body, fields) == [f \in DOMAIN body \cap fields |-> body[f]]

\* Request bodies of POST /accounts.
PostBodies ==
  {[owner |-> "Nova", currency |-> "COSMIC_COINS"],
   [owner |-> "Gary", currency |-> "GALAXY_GOLD", accountType |-> "PREMIUM"],
   [currency |-> "COSMIC_COINS"],
   [owner |-> "Nova", currency |-> "EARTH_DOLLARS"]}

\* Request bodies of POST /accounts that give a starting balance.
BalanceBodies ==
  {[owner |-> "Gary", currency |-> "GALAXY_GOLD", balance |-> MaxAmount],
   [owner |-> "Nova", currency |-> "COSMIC_COINS", balance |-> -1]}

\* Request bodies of PUT /accounts/:id and PATCH /accounts/:accountId.
UpdateBodies ==
  {[owner |-> "Gary"], [accountType |-> "PREMIUM"], [currency |-> "GALAXY_GOLD"],
   [balance |-> MaxAmount], [x \in {} |-> ""]}

\* The ids account requests name: a sample account and a generated id.
RequestedIds == {"a1", "a3"}

----------------------------------------------------------------------------
(* Account model: validation *)

\* Account.validate: the error of the first rule the data breaks, "" if none.
validate(data) ==
  IF ~Given(data, "owner") THEN "Owner name is required and must be a string"
  ELSE IF Field(data, "currency") \cap Currencies = {} THEN "Currency must be one of"
  ELSE IF \E b \in Field(data, "balance") : b < 0 THEN "Balance must be a non-negative number"
  ELSE ""

----------------------------------------------------------------------------
(* Account and key operations of the store *)

\* getAccounts: the accounts that are not deleted and pass every filter given.
getAccounts(filters) ==
  {id \in DOMAIN accounts :
     /\ ~accounts[id].deleted
     /\ Given(filters, "apiKey") => accounts[id].apiKey = filters.apiKey
     /\ Given(filters, "owner") => accounts[id].owner = filters.owner}

\* createAccount: a row under the generated id.  The INSERT of the PostgreSQL
\* store fails, and nothing is stored, when the id is taken or the key is not
\* one of the keys registered in api_keys by then; the Map.set of the MockDatabase stores the row whatever the
\* key and replaces the account already stored under the id.  The balance is
\* accountData.balance || 0.
createAccount(id, accountData, apiKey, registered) ==
  IF backend = "pg" /\ (id \in DOMAIN accounts \/ apiKey \notin registered)
  THEN accounts
  ELSE [a \in DOMAIN accounts \cup {id} |->
          IF a = id
          THEN [balance |-> IF "balance" \in DOMAIN accountData
                            THEN accountData.balance ELSE 0,
                currency |-> accountData.currency, deleted |-> FALSE,
                owner |-> accountData.owner,
                accountType |-> IF Given(accountData, "accountType")
                                THEN accountData.accountType ELSE "STANDARD",
                apiKey |-> apiKey]
          ELSE accounts[a]]

\* updateAccount: owner, currency and accountType, each when given, are written
\* to the row of an account that exists and is not deleted.
updateAccount(id, updates) ==
  IF id \in DOMAIN accounts /\ ~accounts[id].deleted
  THEN [accounts EXCEPT ![id] =
          [f \in DOMAIN @ |->
             IF f \in {"owner", "currency", "accountType"} /\ Given(updates, f)
             THEN updates[f] ELSE @[f]]]
  ELSE accounts

\* Variant: the row is removed.
deleteAccountRemoves(id) == [a \in DOMAIN accounts \ {id} |-> accounts[a]]

\* deleteAccount: the deleted flag of an account that exists and is not deleted
\* is set.
deleteAccount(id) ==
  IF id \in DOMAIN accounts /\ ~accounts[id].deleted
  THEN [accounts EXCEPT ![id].deleted = TRUE]
  ELSE accounts

\* Variant: the toAccountId filter is compared with from_account_id.
getTransactionsByFromOnly(filters) ==
  {id \in DOMAIN transactions :
     /\ Given(filters, "fromAccountId") => transactions[id].from = filters.fromAccountId
     /\ Given(filters, "toAccountId") => transactions[id].from = filters.toAccountId
     /\ Given(filters, "createdAt") => transactions[id].createdAt = filters.createdAt}

\* getTransactions: the ids of the records that pass every filter given.
getTransactions(filters) ==
  {id \in DOMAIN transactions :
     /\ Given(filters, "fromAccountId") => transactions[id].from = filters.fromAccountId
     /\ Given(filters, "toAccountId") => transactions[id].to = filters.toAccountId
     /\ Given(filters, "createdAt") => transactions[id].createdAt = filters.createdAt}

\* Database.validateApiKey / MockDatabase.validateApiKey
db_validateApiKey(apiKey) == apiKey \in keys

\* Variant: the key replaces the registered ones.
db_addApiKeyReplaces(apiKey) == {apiKey}

\* Database.addApiKey / MockDatabase.addApiKey: INSERT ... ON CONFLICT DO NOTHING
db_addApiKey(apiKey) == keys \cup {apiKey}

----------------------------------------------------------------------------
(* Middleware *)

\* Variant: a request without a key is let through.
validateApiKeyLetsThrough(header) ==
  [status |-> 0, error |-> "", next |-> 1, apiKey |-> header,
   keys |-> IF header = NoHeader \/ db_validateApiKey(header)
            THEN keys ELSE db_addApiKey(header)]

\* validateApiKey: a request without a key is answered 401 and goes no further;
\* a key that is not registered is registered; req.apiKey is set and next is
\* called.
validateApiKey(header) ==
  IF header = NoHeader
  THEN [status |-> 401, error |-> "authenticationError", next |-> 0,
        apiKey |-> Undefined, keys |-> keys]
  ELSE [status |-> 0, error |-> "", next |-> 1, apiKey |-> header,
        keys |-> IF db_validateApiKey(header) THEN keys ELSE db_addApiKey(header)]

\* requireAdmin: next only for the admin key, 403 otherwise.
requireAdmin(apiKey) ==
  IF apiKey = AdminKey
  THEN [status |-> 0, error |-> "", next |-> 1]
  ELSE [status |-> 403, error |-> "forbiddenError", next |-> 0]

----------------------------------------------------------------------------
(* Account routes *)

\* The request is answered with what the handler produced: the accounts as the
\* store's operation left them, the keys as the middleware left them.
Answer(route, header, id, mw, admin, reply, newAccounts) ==
  /\ newAccounts # accounts => ops < MaxAccountChanges
  /\ accounts' = newAccounts
  /\ ops' = IF newAccounts # accounts THEN ops + 1 ELSE ops
  /\ expected' = [a \in DOMAIN newAccounts |-> newAccounts[a].balance]
  /\ keys' = mw.keys
  /\ call' = [route |-> route, header |-> header, id |-> id, apiKey |-> mw.apiKey,
              next |-> mw.next, adminNext |-> admin.next, status |-> reply.status,
              error |-> reply.error, listed |-> reply.listed, body |-> reply.body]
  /\ UNCHANGED <<pool, backend, transactions, proc>>

NoBody == [x \in {} |-> ""]

\* A response: its status, the name of its error, the ids of the accounts in
\* it, and with them the body of the request when the handler validates it.
Reply(status, error) == [status |-> status, error |-> error, listed |-> {}, body |-> NoBody]

NotAsked == [status |-> 0, error |-> "", next |-> 0]

\* GET /accounts of either router (the first also filters by req.apiKey).
ListAccounts(route, header) ==
  LET mw == validateApiKey(header)
      filters == IF route = "GET /" THEN [apiKey |-> mw.apiKey] ELSE NoBody
      found == Promise(getAccounts(filters))
      reply == IF mw.next = 0 THEN Reply(mw.status, mw.error)
               ELSE IF ~CanCall(found) THEN Reply(500, "serverError")
               ELSE [Reply(200, "") EXCEPT !.listed = found]
  IN  /\ route \in {"GET /", "admin GET /"}
      /\ Answer(route, header, "", mw, NotAsked, reply, accounts)

\* GET /accounts/:id
GetAccount(header, id) ==
  LET mw == validateApiKey(header)
      account == Promise(getAccountById(id))
      reply == IF mw.next = 0 THEN Reply(mw.status, mw.error)
               ELSE IF IsFalsy(account) \/ Field(account, "deleted") = {TRUE}
                 THEN Reply(404, "notFoundError")
               ELSE IF Field(account, "apiKey") # {mw.apiKey}
                 THEN Reply(403, "forbiddenError")
               ELSE IF ~CanCall(account) THEN Reply(500, "serverError")
               ELSE [Reply(200, "") EXCEPT !.listed = {id}]
  IN  Answer("GET /:id", header, id, mw, NotAsked, reply, accounts)

\* POST /accounts of either router (the second passes no key to the store).
\* The response carries account.accountId of what createAccount returned.
PostAccount(route, header, body, id) ==
  LET mw == validateApiKey(header)
      apiKey == IF route = "POST /" THEN mw.apiKey ELSE Undefined
      invalid == validate(body) # ""
      account == Promise([accountId |-> id])
      reply == IF mw.next = 0 THEN Reply(mw.status, mw.error)
               ELSE IF invalid THEN [Reply(400, "validationError") EXCEPT !.body = body]
               ELSE [Reply(201, "") EXCEPT !.listed = Field(account, "accountId"),
                                           !.body = body]
  IN  /\ route \in {"POST /", "admin POST /"}
      /\ id \notin DOMAIN SeedAccounts
      /\ Answer(route, header, id, mw, NotAsked, reply,
                IF mw.next = 1 /\ ~invalid
                THEN createAccount(id, body, apiKey, mw.keys) ELSE accounts)

\* PUT /accounts/:id
PutAccount(header, id, body) ==
  LET mw == validateApiKey(header)
      account == Promise(getAccountById(id))
      allowedUpdates == Only(body, {"owner", "accountType"})
      stop == IF mw.next = 0 THEN Reply(mw.status, mw.error)
              ELSE IF IsFalsy(account) \/ Field(account, "deleted") = {TRUE}
                THEN Reply(404, "notFoundError")
              ELSE IF Field(account, "apiKey") # {mw.apiKey}
                THEN Reply(403, "forbiddenError")
              ELSE IF DOMAIN allowedUpdates = {} THEN Reply(400, "validationError")
              ELSE IF Given(allowedUpdates, "accountType")
                      /\ validate(Only(account, {"owner", "currency", "balance"})) # ""
                THEN Reply(400, "validationError")
              ELSE IF Field(allowedUpdates, "owner") = {""}
                THEN Reply(400, "validationError")
              ELSE Reply(0, "")
      updatedAccount == Promise(getAccountById(id))
      reply == IF stop.status # 0 THEN stop
               ELSE IF ~CanCall(updatedAccount) THEN Reply(500, "serverError")
               ELSE Reply(200, "")
  IN  Answer("PUT /:id", header, id, mw, NotAsked, reply,
             IF stop.status = 0 THEN updateAccount(id, allowedUpdates) ELSE accounts)

\* DELETE /accounts/:id
DeleteOwnAccount(header, id) ==
  LET mw == validateApiKey(header)
      account == Promise(getAccountById(id))
      reply == IF mw.next = 0 THEN Reply(mw.status, mw.error)
               ELSE IF IsFalsy(account) \/ Field(account, "deleted") = {TRUE}
                 THEN Reply(404, "notFoundError")
               ELSE IF Field(account, "apiKey") # {mw.apiKey}
                 THEN Reply(403, "forbiddenError")
               ELSE Reply(200, "")
  IN  Answer("DELETE /:id", header, id, mw, NotAsked, reply,
             IF reply.status = 200 THEN deleteAccount(id) ELSE accounts)

\* PATCH /accounts/:accountId, guarded by requireAdmin.
PatchAccount(header, id, updates) ==
  LET mw == validateApiKey(header)
      admin == IF mw.next = 1 THEN requireAdmin(mw.apiKey) ELSE NotAsked
      existingAccount == Promise(getAccountById(id))
      stop == IF mw.next = 0 THEN Reply(mw.status, mw.error)
              ELSE IF admin.next = 0 THEN Reply(admin.status, admin.error)
              ELSE IF IsFalsy(existingAccount) THEN Reply(404, "instanceNotFoundError")
              ELSE Reply(0, "")
      updatedAccount == Promise(getAccountById(id))
      reply == IF stop.status # 0 THEN stop
               ELSE IF ~CanCall(updatedAccount) THEN Reply(500, "serverError")
               ELSE Reply(200, "")
  IN  Answer("PATCH /:accountId", header, id, mw, admin, reply,
             IF stop.status = 0 THEN updateAccount(id, updates) ELSE accounts)

\* Variant: the route is declared without requireAdmin.
DeleteAccountUnguarded(header, id) ==
  LET mw == validateApiKey(header)
      admin == IF mw.next = 1 THEN requireAdmin(mw.apiKey) ELSE NotAsked
      account == Promise(getAccountById(id))
      reply == IF mw.next = 0 THEN Reply(mw.status, mw.error)
               ELSE IF IsFalsy(account) THEN Reply(404, "instanceNotFoundError")
               ELSE Reply(204, "")
  IN  Answer("DELETE /:accountId", header, id, mw, admin, reply,
             IF reply.status = 204 THEN deleteAccount(id) ELSE accounts)

\* DELETE /accounts/:accountId, guarded by requireAdmin.
DeleteAccountAsAdmin(header, id) ==
  LET mw == validateApiKey(header)
      admin == IF mw.next = 1 THEN requireAdmin(mw.apiKey) ELSE NotAsked
      account == Promise(getAccountById(id))
      reply == IF mw.next = 0 THEN Reply(mw.status, mw.error)
               ELSE IF admin.next = 0 THEN Reply(admin.status, admin.error)
               ELSE IF IsFalsy(account) THEN Reply(404, "instanceNotFoundError")
               ELSE Reply(204, "")
  IN  Answer("DELETE /:accountId", header, id, mw, admin, reply,
             IF reply.status = 204 THEN deleteAccount(id) ELSE accounts)

----------------------------------------------------------------------------
(* Specification *)

Init ==
  /\ backend \in {"pg", "mock"}
  /\ accounts = SeedAccounts
  /\ transactions = SeedTransactions
  /\ proc = [r \in Requests |-> Idle]
  /\ expected = [a \in DOMAIN SeedAccounts |-> SeedAccounts[a].balance]
  /\ ops = 0
  /\ keys = {AdminKey}
  /\ call = NoCall
  /\ pool = NoClients

Next ==
  \/ \E r \in Requests, f \in AccountIds \cup {DepositSource}, t \in AccountIds,
        amt \in Amounts, cur \in Currencies : Receive(r, f, t, amt, cur)
  \/ \E r \in Requests : FetchTo(r)
  \/ \E r \in Requests : FetchFrom(r)
  \/ \E r \in Requests : Debit(r)
  \/ \E r \in Requests : Credit(r)
  \/ \E r \in Requests, id \in TxIds : Insert(r, id)
  \/ \E r \in Requests : Commit(r)
  \/ \E r \in Requests : Fail(r)
  \/ \E r \in Requests, id \in TxIds : MockRequest(r, id)
  \/ \E id \in AccountIds, balance \in OpeningBalances, cur \in Currencies :
        CreateAccount(id, balance, cur)
  \/ \E id \in AccountIds, cur \in Currencies : UpdateAccount(id, cur)
  \/ \E id \in AccountIds : DeleteAccount(id)
  \/ Read

Spec == Init /\ [][Next]_vars

\* generateApiKey: a key of 16 hex digits is added to the registered keys.
GenerateApiKey(apiKey) ==
  /\ keys' = db_addApiKey(apiKey)
  /\ call' = [route |-> "generateApiKey", header |-> NoHeader, id |-> "",
              apiKey |-> apiKey, next |-> 0, adminNext |-> 0, status |-> 0,
              error |-> "", listed |-> {}, body |-> NoBody]
  /\ UNCHANGED <<pool, backend, accounts, transactions, proc, expected, ops>>

\* The account API alone: the requests of both accounts routers, each with its
\* middleware, over either store.
AccountsNext ==
  \/ \E route \in {"GET /", "admin GET /"}, h \in Headers : ListAccounts(route, h)
  \/ \E h \in Headers, id \in RequestedIds : GetAccount(h, id)
  \/ \E route \in {"POST /", "admin POST /"}, h \in Headers, body \in PostBodies,
        id \in RequestedIds : PostAccount(route, h, body, id)
  \/ \E h \in Headers, id \in RequestedIds, body \in UpdateBodies :
        PutAccount(h, id, body)
  \/ \E h \in Headers, id \in RequestedIds : DeleteOwnAccount(h, id)
  \/ \E h \in Headers, id \in RequestedIds, body \in UpdateBodies :
        PatchAccount(h, id, body)
  \/ \E h \in Headers, id \in RequestedIds : DeleteAccountAsAdmin(h, id)
  \/ \E apiKey \in ApiKeys : GenerateApiKey(apiKey)

AccountsSpec == Init /\ [][AccountsNext]_vars

\* The creation of accounts alone: POST /accounts of either router with every
\* kind of body, a starting balance included.
CreateNext ==
  \E route \in {"POST /", "admin POST /"}, h \in Headers,
     body \in PostBodies \cup BalanceBodies, id \in RequestedIds :
       PostAccount(route, h, body, id)

CreateSpec == Init /\ [][CreateNext]_vars

\* The transaction read path alone, applied to any table of records.
StoredRecords ==
  [from : {DepositSource, "a1"}, to : {"a1", "a2"}, amount : {MaxAmount},
   currency : {"COSMIC_COINS"}, createdAt : Days]

RecordIds == 0..(MaxRecords - 1)

Tables == UNION {[ids -> StoredRecords] : ids \in SUBSET RecordIds}

\* The filters of a call: any of the three, each with a value or empty.
Filters ==
  {Only(all, given) :
     all \in [fromAccountId : {"", DepositSource, "a1"}, toAccountId : {"", "a2"},
              createdAt : {"", Today}],
     given \in SUBSET {"fromAccountId", "toAccountId", "createdAt"}}

ReadInit ==
  /\ backend \in {"pg", "mock"}
  /\ accounts = SeedAccounts
  /\ transactions \in Tables
  /\ proc = [r \in Requests |-> Idle]
  /\ expected = [a \in DOMAIN SeedAccounts |-> SeedAccounts[a].balance]
  /\ ops = 0
  /\ keys = {AdminKey}
  /\ call = NoCall
  /\ pool = NoClients

\* A call of getTransactions and what it returns.
GetTransactions(filters) ==
  /\ call' = [route |-> "getTransactions", filters |-> filters,
              result |-> getTransactions(filters)]
  /\ UNCHANGED <<pool, backend, accounts, transactions, proc, expected, ops, keys>>

\* A call of getTransactionById and what it returns.
GetTransactionById(id) ==
  /\ call' = [route |-> "getTransactionById", id |-> id,
              result |-> getTransactionById(id)]
  /\ UNCHANGED <<pool, backend, accounts, transactions, proc, expected, ops, keys>>

ReadNext ==
  \/ \E filters \in Filters : GetTransactions(filters)
  \/ \E id \in 0..MaxRecords : GetTransactionById(id)

ReadSpec == ReadInit /\ [][ReadNext]_vars

TypeOK ==
  /\ backend \in {"pg", "mock"}
  /\ DOMAIN accounts \subseteq AccountIds
  /\ \A a \in DOMAIN accounts : accounts[a].balance \in Int
  /\ DOMAIN transactions \subseteq TxIds \cup {SeedTxId}
  /\ ops \in Nat

----------------------------------------------------------------------------
(* Vocabulary of the properties *)

\* The step is one of request r.
StepOf(r) == proc'[r] # proc[r]

\* The step is the one on which request r is answered.
AnswersWith(r, resp) ==
  /\ StepOf(r)
  /\ proc'[r].pc = "done"
  /\ proc'[r].resp = resp

\* The step leaves every account and every transaction record as they were.
NothingChanges == accounts' = accounts /\ transactions' = transactions

\* The id exists and is not soft-deleted, in the store as it is now.
Live(id) == id \in DOMAIN accounts /\ ~accounts[id].deleted

UnitOfWork == {"debit", "credit", "insert", "commit"}

\* Both balance changes of the request applied to the accounts as they are.
AllApplied(p) ==
  [a \in DOMAIN accounts |->
     [accounts[a] EXCEPT !.balance =
        @ + (IF a = p.to THEN p.amount ELSE 0) - (IF a = p.from THEN p.amount ELSE 0)]]

----------------------------------------------------------------------------
(* C1 *)

\* C1: a transfer that succeeds with fromAccountId # "0" between two accounts
\* lowers the source balance by exactly amount and raises the destination
\* balance by exactly amount on the step that commits it, so the sum of the
\* two balances is the same right after the commit as right before it.
C1_Conservation ==
  [][\A r \in Requests :
       LET p == proc[r]
       IN (AnswersWith(r, "Created") /\ p.from # DepositSource /\ p.from # p.to) =>
            /\ p.from \in DOMAIN accounts /\ p.to \in DOMAIN accounts
            /\ accounts'[p.from].balance = accounts[p.from].balance - p.amount
            /\ accounts'[p.to].balance = accounts[p.to].balance + p.amount
            /\ accounts'[p.from].balance + accounts'[p.to].balance
                 = accounts[p.from].balance + accounts[p.to].balance]_vars

\* A transfer between two accounts has committed and its record is in the ledger.
C1_Witness ==
  /\ \E r \in Requests : proc[r].resp = "Created"
  /\ \E id \in DOMAIN transactions \ {SeedTxId} :
       /\ transactions[id].from # DepositSource
       /\ transactions[id].from # transactions[id].to

----------------------------------------------------------------------------
(* C2 *)

\* C2: in every reachable state every account has balance >= 0, under every
\* interleaving of concurrent transfer requests.
C2_NoNegativeBalances == \A a \in DOMAIN accounts : accounts[a].balance >= 0

----------------------------------------------------------------------------
(* C3 *)

\* The statements of the unit of work are issued in the order debit, credit,
\* insert, commit.
IssuedInOrder(from, to) ==
  \/ from = "debit" /\ to = "credit"
  \/ from = "credit" /\ to = "insert"
  \/ from = "insert" /\ to = "commit"

----------------------------------------------------------------------------
(* C4 *)

\* C4: whatever calls have committed, one after another or interleaved on the
\* same accounts, each account's balance is its opening balance plus the
\* amounts of the committed transactions that credit it minus the amounts of
\* those that debit it.
C4_NoLostUpdates == \A a \in DOMAIN accounts : accounts[a].balance = expected[a]

\* Two calls have committed.
C4_Witness ==
  /\ \A r \in Requests : proc[r].resp = "Created"
  /\ \E a \in DOMAIN SeedAccounts : accounts[a].balance # SeedAccounts[a].balance

----------------------------------------------------------------------------
(* Where the handler decides on rules 4 and 5 *)

\* The destination currency the handler compares with: the one its destination
\* lookup returned.
SeenToCurrency(p) == IF p.toCurrency # "" THEN p.toCurrency ELSE accounts[p.to].currency

\* The step is the one on which request r, having a valid amount and accounts
\* that resolve as the handler looks them up, has rule 4 and then rule 5
\* applied to it.
Deciding(r) ==
  LET p == proc[r]
  IN /\ StepOf(r)
     /\ \/ /\ backend = "pg" /\ p.pc = "fetchFrom"
           /\ Live(p.from)
        \/ /\ backend = "pg" /\ p.pc = "received" /\ p.from = DepositSource
           /\ p.amount > 0 /\ Live(p.to)
        \/ /\ backend = "mock" /\ p.pc = "received"
           /\ p.amount > 0 /\ Live(p.to)
           /\ p.from = DepositSource \/ Live(p.from)

\* The step on which request r gets its response.
Answering(r) == StepOf(r) /\ proc'[r].pc = "done"

----------------------------------------------------------------------------
(* C5 *)

\* C5 as stated: a transfer with fromAccountId # "0" whose amount is greater
\* than the source account's balance is rejected with InsufficientFundsFailure
\* and no balance and no transaction record changes.
C5_AsStated ==
  [][\A r \in Requests :
       LET p == proc[r]
       IN (/\ Answering(r)
           /\ p.from # DepositSource /\ p.from \in DOMAIN accounts
           /\ p.amount > accounts[p.from].balance) =>
            AnswersWith(r, "InsufficientFundsFailure") /\ NothingChanges]_vars

\* C5, amended: a transfer with fromAccountId # "0" that has a valid amount,
\* accounts that resolve and the destination's currency, and whose amount is
\* greater than the source balance the handler reads, is rejected with
\* InsufficientFundsFailure and no balance and no transaction record changes.
C5_InsufficientFunds ==
  [][\A r \in Requests :
       LET p == proc[r]
       IN (/\ Deciding(r)
           /\ p.from # DepositSource
           /\ p.currency = SeenToCurrency(p)
           /\ p.amount > accounts[p.from].balance) =>
            AnswersWith(r, "InsufficientFundsFailure") /\ NothingChanges]_vars

\* A transfer was rejected for insufficient funds.
C5_Witness ==
  \E r \in Requests :
    proc[r].resp = "InsufficientFundsFailure" /\ proc[r].err = "funds"

----------------------------------------------------------------------------
(* C6 *)

\* C6 as stated: a request is accepted only if its currency equals the
\* destination account's currency, and a request whose currency differs is
\* rejected with ValidationFailure, changes no balance and adds no record.
C6_AsStated ==
  [][\A r \in Requests :
       LET p == proc[r]
       IN (/\ Answering(r)
           /\ p.to \in DOMAIN accounts
           /\ p.currency # accounts[p.to].currency) =>
            AnswersWith(r, "ValidationFailure") /\ NothingChanges]_vars

\* C6, amended: a request is accepted only if its currency equals the
\* destination account's currency as the handler's destination lookup returned
\* it; a request with a valid amount and accounts that resolve whose currency
\* differs from it is rejected with ValidationFailure, changes no balance and
\* adds no record.
C6_CurrencyConsistency ==
  [][\A r \in Requests :
       LET p == proc[r]
       IN /\ AnswersWith(r, "Created") => p.currency = SeenToCurrency(p)
          /\ (Deciding(r) /\ p.currency # SeenToCurrency(p)) =>
               AnswersWith(r, "ValidationFailure") /\ NothingChanges]_vars

\* A request was rejected because its currency is not the destination's.
C6_Witness ==
  \E r \in Requests :
    proc[r].resp = "ValidationFailure" /\ proc[r].err = "currency"

----------------------------------------------------------------------------
(* C7 *)

\* C7: a successful transaction with fromAccountId = "0" raises the
\* destination balance by exactly amount and leaves every other account as it
\* was, so no account is decremented; and no check is made for the source: a
\* deposit with a valid amount, a destination that resolves and its currency
\* goes on to the credit, never to NotFoundFailure or InsufficientFundsFailure.
C7_DepositSkipsSource ==
  [][\A r \in Requests :
       LET p == proc[r]
       IN p.from = DepositSource =>
            /\ AnswersWith(r, "Created") =>
                 /\ p.to \in DOMAIN accounts
                 /\ accounts' = [accounts EXCEPT ![p.to].balance = @ + p.amount]
            /\ (Deciding(r) /\ p.currency = SeenToCurrency(p)) =>
                 proc'[r].pc = "credit" \/ AnswersWith(r, "Created")
            /\ Answering(r) => proc'[r].err \notin {"from", "funds"}]_vars

\* A deposit has committed and its record is in the ledger.
C7_Witness ==
  /\ \E r \in Requests : proc[r].resp = "Created"
  /\ \E id \in DOMAIN transactions \ {SeedTxId} : transactions[id].from = DepositSource

----------------------------------------------------------------------------
(* C8 *)

\* C8: each call that passes validation and commits adds exactly one new
\* transaction record, under a transactionId no earlier record has, so N
\* committed calls yield N records with N distinct transactionIds.
C8_OneNewRecordPerCommit ==
  [][\A r \in Requests :
       AnswersWith(r, "Created") =>
         /\ \E id \in DOMAIN transactions' \ DOMAIN transactions :
              DOMAIN transactions' = DOMAIN transactions \cup {id}
         /\ Cardinality(DOMAIN transactions') = Cardinality(DOMAIN transactions) + 1]_vars

----------------------------------------------------------------------------
(* C9 *)

\* C9: once a transaction record exists, no later operation changes any of
\* its fields or removes it.
C9_AppendOnly ==
  [][\A id \in DOMAIN transactions :
       id \in DOMAIN transactions' /\ transactions'[id] = transactions[id]]_vars

----------------------------------------------------------------------------
(* C10 *)

\* C10 as stated: every transaction request that arrives after an account was
\* soft-deleted and names it as toAccountId, or as fromAccountId other than
\* "0", is rejected with NotFoundFailure, changes no balance and adds no record.
C10_AsStated ==
  [][\A r \in Requests :
       (Answering(r) /\ proc[r].late) =>
         AnswersWith(r, "NotFoundFailure") /\ NothingChanges]_vars

\* C10, amended: every transaction request with a valid amount that arrives
\* after an account was soft-deleted and names it as toAccountId, or as
\* fromAccountId other than "0", is rejected with NotFoundFailure, changes no
\* balance and adds no record.
C10_DeletedIsNotFound ==
  [][\A r \in Requests :
       (Answering(r) /\ proc[r].late /\ proc[r].amount > 0) =>
         AnswersWith(r, "NotFoundFailure") /\ NothingChanges]_vars

\* A request naming an account deleted before it arrived was answered NotFoundFailure.
C10_Witness ==
  \E r \in Requests : proc[r].late /\ proc[r].resp = "NotFoundFailure"

----------------------------------------------------------------------------
(* C11 *)

\* C11: soft-deleted accounts are excluded from all lookups: getAccountById
\* returns nothing for an id that is unknown or soft-deleted, GET /accounts/:id
\* of such an id is answered 404, and getAccounts never returns a soft-deleted
\* account.
C11_DeletedExcluded ==
  /\ \A id \in AccountIds : ~Live(id) => getAccountById(id) = {}
  /\ (call.route = "GET /:id" /\ call.next = 1 /\ ~Live(call.id)) => call.status = 404
  /\ \A key \in ApiKeys : \A id \in getAccounts([apiKey |-> key]) : ~accounts[id].deleted

----------------------------------------------------------------------------
(* C12 *)

\* The step is the one on which the validation of request r ends: the request
\* is answered, or goes on to the unit of work.
EndsValidation(r) ==
  /\ StepOf(r)
  /\ proc[r].pc \in {"received", "fetchFrom"}
  /\ proc'[r].pc \in UnitOfWork \cup {"done"}

\* The lowest-numbered rule of a set of rules, by the name the failure carries.
LowestOf(rules) ==
  LET n == CHOOSE n \in rules : \A m \in rules : n <= m
  IN  <<"amount", "to", "from", "currency", "funds">>[n]

\* C12: validation is fail-fast in the order 1 amount, 2 destination, 3 source,
\* 4 currency, 5 funds: a request that breaks one or several rules is answered
\* with the failure of the lowest-numbered rule it breaks and changes nothing,
\* and a step of a request changes a balance only when the request broke none.
C12_FailFast ==
  [][\A r \in Requests :
       LET p == proc[r]
       IN /\ (EndsValidation(r) /\ Violated(p) # {}) =>
               /\ AnswersWith(r, FailureOf(LowestOf(Violated(p))))
               /\ proc'[r].err = LowestOf(Violated(p))
               /\ NothingChanges
          /\ (EndsValidation(r) /\ Violated(p) = {}) =>
               proc'[r].pc \in UnitOfWork \/ AnswersWith(r, "Created")
          /\ (StepOf(r) /\ accounts' # accounts) =>
               \/ p.pc = "commit"
               \/ backend = "mock" /\ p.pc = "received" /\ Violated(p) = {}]_vars

\* A request that broke several rules was answered with the failure of the
\* second or third rule, the lowest it broke.
C12_Witness ==
  \E r \in Requests :
    /\ proc[r].several
    /\ proc[r].err \in {"to", "from"}
    /\ proc[r].resp = "NotFoundFailure"

----------------------------------------------------------------------------
(* C13 *)

\* The balance an account was opened with.
OpenedWith(a) == IF a \in DOMAIN SeedAccounts THEN SeedAccounts[a].balance ELSE 0

\* What the records stored under ids, taken together, add to account a.
RECURSIVE EffectOn(_, _)
EffectOn(a, ids) ==
  IF ids = {} THEN 0
  ELSE LET id == CHOOSE id \in ids : TRUE
           tx == transactions[id]
       IN  (IF tx.to = a THEN tx.amount ELSE 0)
             - (IF tx.from = a THEN tx.amount ELSE 0)
             + EffectOn(a, ids \ {id})

\* C13: no partial state is observable: in every reachable state a reader of
\* the accounts and the transaction records sees each account at the balance it
\* was opened with plus the amounts of exactly the records it can retrieve: no
\* debit without its credit, no changed balance whose record is absent and no
\* record whose balance changes are absent.
C13_NoPartialState ==
  \A a \in DOMAIN accounts :
    accounts[a].balance = OpenedWith(a) + EffectOn(a, DOMAIN transactions \ {SeedTxId})

----------------------------------------------------------------------------
(* C14 *)

\* The routes of the accounts router that checks ownership.
OwnerRoutes == {"GET /", "GET /:id", "POST /", "PUT /:id", "DELETE /:id"}

\* The step is a request to one of the given routes that passed validateApiKey.
RequestTo(routes) == call'.route \in routes /\ call'.next = 1

\* C14: ownership: a GET, PUT or DELETE on /accounts/:id by a caller whose key
\* differs from the key the account was created with is answered 403
\* forbiddenError and leaves the account unchanged; GET /accounts returns only
\* non-deleted accounts created with the caller's key; and no request to the
\* router reads or changes an account created with a key other than the
\* caller's.
C14_Ownership ==
  [][RequestTo(OwnerRoutes) =>
       LET key == call'.apiKey
           id == call'.id
       IN /\ (/\ call'.route \in {"GET /:id", "PUT /:id", "DELETE /:id"}
              /\ id \in DOMAIN accounts
              /\ accounts[id].apiKey # key) =>
                /\ call'.status = 403
                /\ call'.error = "forbiddenError"
          /\ \A a \in call'.listed : Live(a) /\ accounts[a].apiKey = key
          /\ \A a \in DOMAIN accounts :
               accounts[a].apiKey # key =>
                 a \in DOMAIN accounts' /\ accounts'[a] = accounts[a]]_vars

----------------------------------------------------------------------------
(* C15 *)

\* C15: immutable fields: an account update request, PUT /accounts/:id or
\* PATCH /accounts/:accountId, changes at most owner and accountType: whatever
\* its body contains, every account is still there with its balance, currency,
\* ownerKey and deleted flag unchanged; and no account request changes the
\* balance of an account.
C15_ImmutableFields ==
  [][/\ call'.route \in {"PUT /:id", "PATCH /:accountId"} =>
          \A a \in DOMAIN accounts :
            /\ a \in DOMAIN accounts'
            /\ \A f \in {"balance", "currency", "apiKey", "deleted"} :
                 accounts'[a][f] = accounts[a][f]
     /\ call'.route # "none" =>
          \A a \in DOMAIN accounts \cap DOMAIN accounts' :
            accounts'[a].balance = accounts[a].balance]_vars

----------------------------------------------------------------------------
(* C16 *)

\* The step is a DELETE request that reached deleteAccount for account id.
Deletes(id) ==
  /\ call'.id = id
  /\ \/ call'.route = "DELETE /:accountId" /\ call'.status = 204
     \/ call'.route = "DELETE /:id" /\ call'.status = 200

\* The ids of the records that name account id as source or destination.
RecordsOf(id) ==
  {t \in DOMAIN transactions : transactions[t].from = id \/ transactions[t].to = id}

\* C16: soft delete preserves history: deleteAccount only sets the account's
\* deleted flag; its other fields, every other account and every transaction
\* record are unchanged, and the records naming the account stay retrievable by
\* getTransactionById and getTransactions.
C16_SoftDeletePreservesHistory ==
  [][\A id \in AccountIds :
       (Deletes(id) /\ id \in DOMAIN accounts) =>
         /\ accounts' = [accounts EXCEPT ![id].deleted = TRUE]
         /\ transactions' = transactions
         /\ \A t \in RecordsOf(id) :
              /\ getTransactionById(t)' = {transactions[t]}
              /\ t \in getTransactions([fromAccountId |-> transactions[t].from])'
              /\ t \in getTransactions([toAccountId |-> transactions[t].to])']_vars

\* An account with a transaction record was deleted by a DELETE request, and
\* its record is still there.
C16_Witness ==
  /\ call.route = "DELETE /:accountId" /\ call.status = 204
  /\ call.id \in DOMAIN accounts /\ accounts[call.id].deleted
  /\ RecordsOf(call.id) # {}

----------------------------------------------------------------------------
(* C17 *)

\* The routes of both accounts routers.
Routes == OwnerRoutes \cup {"admin GET /", "admin POST /", "PATCH /:accountId",
                           "DELETE /:accountId"}

----------------------------------------------------------------------------
(* C18 *)

----------------------------------------------------------------------------
(* C19 *)

\* The routes declared with requireAdmin.
AdminRoutes == {"PATCH /:accountId", "DELETE /:accountId"}

----------------------------------------------------------------------------
(* C20 *)

\* The column of a record that a filter is compared with.
ColumnOf(record, filter) ==
  IF filter = "fromAccountId" THEN record.from
  ELSE IF filter = "toAccountId" THEN record.to
  ELSE record.createdAt

\* The step changes no account and no transaction record.
ReadOnly == accounts' = accounts /\ transactions' = transactions

\* C20 as stated: getTransactions(filters) returns exactly the stored records
\* that match every filter supplied, all of them when none is supplied;
\* getTransactionById returns the record with that id or nothing; neither
\* changes an account or a record.
C20_AsStated ==
  [][/\ call'.route = "getTransactions" =>
          call'.result =
            {id \in DOMAIN transactions :
               \A f \in DOMAIN call'.filters :
                 ColumnOf(transactions[id], f) = call'.filters[f]}
     /\ call'.route = "getTransactionById" =>
          call'.result = IF call'.id \in DOMAIN transactions
                         THEN {transactions[call'.id]} ELSE {}
     /\ ReadOnly]_vars

\* C20, amended: getTransactions(filters) returns exactly the stored records
\* that match every filter supplied with a non-empty value (a filter supplied
\* as the empty string is ignored), all of them when none is;
\* getTransactionById returns the record with that id or nothing; neither
\* changes an account or a record.
C20_ReadPath ==
  [][/\ call'.route = "getTransactions" =>
          call'.result =
            {id \in DOMAIN transactions :
               \A f \in DOMAIN call'.filters :
                 call'.filters[f] # "" =>
                   ColumnOf(transactions[id], f) = call'.filters[f]}
     /\ call'.route = "getTransactionById" =>
          call'.result = IF call'.id \in DOMAIN transactions
                         THEN {transactions[call'.id]} ELSE {}
     /\ ReadOnly]_vars

\* getTransactions was called with two filters on a table of several records
\* and returned some of them, not all.
C20_Witness ==
  /\ call.route = "getTransactions"
  /\ Cardinality(DOMAIN call.filters) >= 2
  /\ call.result # {} /\ call.result # DOMAIN transactions

----------------------------------------------------------------------------
(* The interface of the two stores, called directly *)

\* What a call leaves behind: the two tables, and whether it threw.
Outcome(newAccounts, newTransactions, threw) ==
  [accounts |-> newAccounts, transactions |-> newTransactions, threw |-> threw]

\* The calls made on a store: createTransaction with the id it generates,
\* createAccount with the id it generates, updateAccount, deleteAccount.
TransactionCalls ==
  {[op |-> "createTransaction", id |-> id, data |-> data] :
     id \in TxIds,
     data \in [from : {DepositSource, "a1", "a3"}, to : {"a2", "a3"},
               amount : Amounts, currency : {"COSMIC_COINS"}]}

AccountCalls ==
  {[op |-> "createAccount", id |-> "a3", data |-> data, apiKey |-> apiKey] :
     data \in {body \in PostBodies : validate(body) = ""}, apiKey \in {AdminKey, "k1"}}

UpdateCalls ==
  {[op |-> "updateAccount", id |-> id, updates |-> updates] :
     id \in RequestedIds, updates \in UpdateBodies}

DeleteCalls == {[op |-> "deleteAccount", id |-> id] : id \in RequestedIds}

\* Database (PostgreSQL), each method from its first statement to its return
\* or throw with no other client in between.
Database(c) ==
  IF c.op = "createTransaction" THEN
    LET debited == IF c.data.from # DepositSource
                   THEN SqlUpdateBalance(NoRows, c.data.from, -c.data.amount)
                   ELSE NoRows
        credited == SqlUpdateBalance(debited, c.data.to, c.data.amount)
        p == [Idle EXCEPT !.from = c.data.from, !.to = c.data.to,
                          !.amount = c.data.amount, !.currency = c.data.currency,
                          !.rows = credited, !.txId = c.id]
    IN  IF InsertAccepted(c.id, c.data)
        THEN Outcome(CommittedAccounts(p), CommittedTransactions(p), FALSE)
        ELSE Outcome(accounts, transactions, TRUE)
  ELSE IF c.op = "createAccount" THEN
    IF c.id \in DOMAIN accounts \/ c.apiKey \notin keys
    THEN Outcome(accounts, transactions, TRUE)
    ELSE Outcome(accounts @@
                   (c.id :> [balance |-> IF "balance" \in DOMAIN c.data
                                         THEN c.data.balance ELSE 0,
                             currency |-> c.data.currency, deleted |-> FALSE,
                             owner |-> c.data.owner,
                             accountType |-> IF Given(c.data, "accountType")
                                             THEN c.data.accountType ELSE "STANDARD",
                             apiKey |-> c.apiKey]),
                 transactions, FALSE)
  ELSE IF c.op = "updateAccount" THEN
    \* UPDATE accounts SET <each clause given> WHERE account_id = $n AND deleted = FALSE
    Outcome([a \in DOMAIN accounts |->
               IF a = c.id /\ ~accounts[a].deleted
               THEN [f \in DOMAIN accounts[a] |->
                       IF f \in {"owner", "currency", "accountType"} /\ Given(c.updates, f)
                       THEN c.updates[f] ELSE accounts[a][f]]
               ELSE accounts[a]],
            transactions, FALSE)
  ELSE
    \* UPDATE accounts SET deleted = TRUE WHERE account_id = $1 AND deleted = FALSE
    Outcome([a \in DOMAIN accounts |->
               IF a = c.id /\ ~accounts[a].deleted
               THEN [accounts[a] EXCEPT !.deleted = TRUE] ELSE accounts[a]],
            transactions, FALSE)

\* MockDatabase, each method from its first line to its return.
MockDatabase(c) ==
  IF c.op = "createTransaction" THEN
    Outcome(MockBalances(c.data), MockTransactions(c.id, c.data), FALSE)
  ELSE IF c.op = "createAccount" THEN
    Outcome([a \in DOMAIN accounts \cup {c.id} |->
               IF a = c.id
               THEN [balance |-> IF "balance" \in DOMAIN c.data
                                 THEN c.data.balance ELSE 0,
                     currency |-> c.data.currency, deleted |-> FALSE,
                     owner |-> c.data.owner,
                     accountType |-> IF Given(c.data, "accountType")
                                     THEN c.data.accountType ELSE "STANDARD",
                     apiKey |-> c.apiKey]
               ELSE accounts[a]],
            transactions, FALSE)
  ELSE IF c.op = "updateAccount" THEN
    IF c.id \notin DOMAIN accounts \/ accounts[c.id].deleted
    THEN Outcome(accounts, transactions, FALSE)
    ELSE LET owned == IF Given(c.updates, "owner")
                      THEN [accounts EXCEPT ![c.id].owner = c.updates.owner]
                      ELSE accounts
             priced == IF Given(c.updates, "currency")
                       THEN [owned EXCEPT ![c.id].currency = c.updates.currency]
                       ELSE owned
             typed == IF Given(c.updates, "accountType")
                      THEN [priced EXCEPT ![c.id].accountType = c.updates.accountType]
                      ELSE priced
         IN  Outcome(typed, transactions, FALSE)
  ELSE
    IF c.id \notin DOMAIN accounts \/ accounts[c.id].deleted
    THEN Outcome(accounts, transactions, FALSE)
    ELSE Outcome([accounts EXCEPT ![c.id].deleted = TRUE], transactions, FALSE)

\* One call on the store the server was constructed with.
StoreCall(c) ==
  LET outcome == IF backend = "pg" THEN Database(c) ELSE MockDatabase(c)
  IN  /\ ops < MaxStoreCalls
      /\ accounts' = outcome.accounts
      /\ transactions' = outcome.transactions
      /\ call' = [route |-> "store", c |-> c, threw |-> outcome.threw]
      /\ ops' = ops + 1
      /\ UNCHANGED <<pool, backend, proc, expected, keys>>

CallCreateTransaction(c) == c \in TransactionCalls /\ StoreCall(c)

CallCreateAccount(c) == c \in AccountCalls /\ StoreCall(c)

CallUpdateAccount(c) == c \in UpdateCalls /\ StoreCall(c)

CallDeleteAccount(c) == c \in DeleteCalls /\ StoreCall(c)

StoreNext ==
  \/ \E c \in TransactionCalls : CallCreateTransaction(c)
  \/ \E c \in AccountCalls : CallCreateAccount(c)
  \/ \E c \in UpdateCalls : CallUpdateAccount(c)
  \/ \E c \in DeleteCalls : CallDeleteAccount(c)

\* Either store with the sample data, its interface called directly.
StoreSpec == Init /\ [][StoreNext]_vars

----------------------------------------------------------------------------
(* C21 *)

\* The records of a table without their ids: each record with the number of
\* ids it is stored under.
RecordsUpToIds(table) ==
  [record \in {table[i] : i \in DOMAIN table} |->
     Cardinality({i \in DOMAIN table : table[i] = record})]

\* createTransaction(data) under id left all of its effects or none: both
\* balance changes and a record under a new id, or nothing, and then it threw.
AllOrNothing(c, outcome) ==
  \/ /\ outcome.accounts = accounts /\ outcome.transactions = transactions
     /\ outcome.threw
  \/ /\ c.data.amount > 0
     /\ c.data.to \in DOMAIN accounts
     /\ c.data.from = DepositSource \/ c.data.from \in DOMAIN accounts
     /\ c.id \notin DOMAIN transactions
     /\ outcome.accounts = AllApplied(c.data)
     /\ outcome.transactions = transactions @@ (c.id :> TxRow(c.data))
     /\ ~outcome.threw

\* C21: the in-memory store mirrors the PostgreSQL store: from the same
\* accounts and transactions the same call of createTransaction, createAccount,
\* updateAccount or deleteAccount leaves both stores with the same accounts
\* (balances and deleted flags) and the same transaction records up to their
\* ids, so the same sequence of calls does; and createTransaction is
\* all-or-nothing in both, also when the destination row is missing, the amount
\* is <= 0 or the generated id is taken.
C21_StoresAgree ==
  [][call'.route = "store" =>
       LET c == call'.c
       IN /\ MockDatabase(c).accounts = Database(c).accounts
          /\ RecordsUpToIds(MockDatabase(c).transactions) = RecordsUpToIds(Database(c).transactions)
          /\ c.op = "createTransaction" =>
               AllOrNothing(c, Database(c)) /\ AllOrNothing(c, MockDatabase(c))]_vars

----------------------------------------------------------------------------
(* C22 *)

\* Request r, which names a source, is about to have rule 5 applied with every
\* earlier rule passed.
FundsChecked(r) ==
  /\ Deciding(r)
  /\ proc[r].from # DepositSource
  /\ proc[r].currency = SeenToCurrency(proc[r])

\* The amount of request r was the whole of the source balance its funds check
\* read: on an earlier step over the PostgreSQL store, on this step over the
\* MockDatabase.
TookAll(r) ==
  \/ proc[r].exact
  \/ /\ backend = "mock" /\ proc[r].pc = "received"
     /\ proc[r].from \in DOMAIN accounts
     /\ proc[r].amount = accounts[proc[r].from].balance

\* C22 as stated: the funds check is inclusive: a transfer whose amount equals
\* the source balance exactly passes validation and commits, leaving the source
\* balance at 0; a transfer of the balance plus one unit is rejected with
\* InsufficientFundsFailure.
C22_AsStated ==
  [][\A r \in Requests :
       LET p == proc[r]
       IN /\ (FundsChecked(r) /\ p.amount = accounts[p.from].balance) =>
               proc'[r].pc \in UnitOfWork \/ AnswersWith(r, "Created")
          /\ (AnswersWith(r, "Created") /\ p.from # DepositSource /\ TookAll(r)) =>
               accounts'[p.from].balance = 0
          /\ (FundsChecked(r) /\ p.amount = accounts[p.from].balance + 1) =>
               AnswersWith(r, "InsufficientFundsFailure") /\ NothingChanges]_vars

\* C22, amended: the funds check is inclusive: a transfer whose amount equals
\* the source balance exactly passes validation; when it commits with another
\* account as destination it lowers the source balance by exactly amount, which
\* leaves 0 when the balance is still the one that was checked; a transfer of
\* the balance plus one unit is rejected with InsufficientFundsFailure and
\* changes nothing.
C22_InclusiveFunds ==
  [][\A r \in Requests :
       LET p == proc[r]
       IN /\ (FundsChecked(r) /\ p.amount = accounts[p.from].balance) =>
               proc'[r].pc \in UnitOfWork \/ AnswersWith(r, "Created")
          /\ (AnswersWith(r, "Created") /\ p.from # DepositSource /\ TookAll(r)
                /\ p.from # p.to) =>
               /\ accounts'[p.from].balance = accounts[p.from].balance - p.amount
               /\ accounts[p.from].balance = p.amount => accounts'[p.from].balance = 0
          /\ (FundsChecked(r) /\ p.amount = accounts[p.from].balance + 1) =>
               AnswersWith(r, "InsufficientFundsFailure") /\ NothingChanges]_vars

\* A transfer of the whole opening balance of a1 to another account has
\* committed and left a1 at 0.
C22_Witness ==
  /\ accounts["a1"].balance = 0
  /\ \E r \in Requests : proc[r].resp = "Created"
  /\ \E id \in DOMAIN transactions \ {SeedTxId} :
       /\ transactions[id].from = "a1" /\ transactions[id].to # "a1"
       /\ transactions[id].amount = SeedAccounts["a1"].balance

----------------------------------------------------------------------------
(* C23 *)

\* The record is one the rules allow: a positive amount, a destination that
\* has a row in accounts, and the currency of that account.
WellFormed(tx) ==
  /\ tx.amount > 0
  /\ tx.to \in DOMAIN accounts
  /\ tx.currency = accounts[tx.to].currency

RecordsWellFormed == \A id \in DOMAIN transactions : WellFormed(transactions[id])

\* C23: every transaction record in the store, in every reachable state, has
\* amount > 0, a toAccountId that has a row in accounts and the currency of
\* that destination account; and no step of a request whose amount is <= 0
\* changes a balance or adds a record.
C23_RecordsWellFormed ==
  [][/\ RecordsWellFormed'
     /\ \A r \in Requests :
          (StepOf(r) /\ proc[r].pc # "idle" /\ proc[r].amount <= 0) =>
            NothingChanges]_vars

----------------------------------------------------------------------------
(* C24 *)

\* The accounts request p debits or credits.
Touches(p) == {p.to} \cup (IF p.from # DepositSource THEN {p.from} ELSE {})

\* C24: deleted accounts take part in no new transaction under any
\* interleaving of deleteAccount with a transfer: on the step that commits a
\* transaction, no account it debits or credits has its deleted flag set
\* already.
C24_NoCommitOnDeleted ==
  [][\A r \in Requests :
       AnswersWith(r, "Created") =>
         \A a \in Touches(proc[r]) : a \in DOMAIN accounts /\ ~accounts[a].deleted]_vars

----------------------------------------------------------------------------
(* C25 *)

\* C25: transaction ids are unique: a createTransaction that succeeds stores
\* its record under an id no stored record has and replaces no record, so the
\* records there were are all still there, unchanged, next to the new one; a
\* call answered without a new id in the store (the id it generated was taken)
\* has failed and changed no balance.
C25_UniqueIds ==
  [][\A r \in Requests :
       LET p == proc[r]
       IN Answering(r) =>
            /\ AnswersWith(r, "Created") =>
                 \E id \in TxIds \ DOMAIN transactions :
                   transactions' = transactions @@ (id :> TxRow(DataOf(p)))
            /\ DOMAIN transactions' = DOMAIN transactions =>
                 /\ ~AnswersWith(r, "Created")
                 /\ NothingChanges]_vars

----------------------------------------------------------------------------
(* C26 *)

\* The balance a request body asks for: the one given, 0 if omitted.
GivenBalance(body) == IF "balance" \in DOMAIN body THEN body.balance ELSE 0

\* The body is one Account.validate refuses: no owner, a currency outside the
\* enumerated set, or a balance that is present and negative.
Refused(body) ==
  \/ "owner" \notin DOMAIN body
  \/ "currency" \notin DOMAIN body \/ body.currency \notin Currencies
  \/ "balance" \in DOMAIN body /\ body.balance < 0

\* C26: createAccount never yields a negative starting balance: a POST
\* /accounts whose body has a negative balance, no owner or a currency outside
\* the enumerated set is answered 400 validationError and creates no account;
\* an accepted one creates exactly one account, not deleted, with the given
\* balance (0 if omitted) and the caller's key as its ownerKey, changes no
\* other account, and returns the id of the account it created.
C26_CreateAccount ==
  [][(call'.route = "POST /" /\ call'.next = 1) =>
       IF Refused(call'.body)
       THEN /\ call'.status = 400 /\ call'.error = "validationError"
            /\ accounts' = accounts
       ELSE /\ call'.status = 201
            /\ \E id \in AccountIds \ DOMAIN accounts :
                 /\ accounts' = accounts @@
                      (id :> [AccountRow(GivenBalance(call'.body), call'.body.currency)
                                EXCEPT !.owner = call'.body.owner,
                                       !.accountType =
                                          IF "accountType" \in DOMAIN call'.body
                                          THEN call'.body.accountType ELSE "STANDARD",
                                       !.apiKey = call'.apiKey])
                 /\ accounts'[id].balance >= 0 /\ ~accounts'[id].deleted
                 /\ call'.listed = {id}]_vars

----------------------------------------------------------------------------
(* Database.createTransaction, statement by statement, with the pool *)

\* The clients call r holds, and those checked out of the pool.
Held(r) == pool.acquired[r] - pool.released[r]

CheckedOut == Held("r1") + Held("r2")

\* Where a call is between pool.connect() and client.release().
WithClient == {"begin", "debit", "credit", "insert", "commit", "rollback", "release"}

\* createTransaction(transactionData) is called.
Enter(r, f, t, amt) ==
  /\ NextToArrive(r)
  /\ proc' = [proc EXCEPT ![r] =
       [Idle EXCEPT !.pc = "connect", !.from = f, !.to = t, !.amount = amt]]
  /\ UNCHANGED <<pool, keys, call, backend, accounts, transactions, expected, ops>>

\* const client = await this.pool.connect(): granted when the pool has a
\* client to hand out.
Connect(r) ==
  /\ proc[r].pc = "connect"
  /\ CheckedOut < pool.max
  /\ pool' = [pool EXCEPT !.acquired[r] = @ + 1]
  /\ proc' = [proc EXCEPT ![r].pc = "begin"]
  /\ UNCHANGED <<keys, call, backend, accounts, transactions, expected, ops>>

\* await client.query('BEGIN')
Begin(r) ==
  /\ proc[r].pc = "begin"
  /\ proc' = [proc EXCEPT ![r].pc = FirstStatement(proc[r])]
  /\ UNCHANGED <<pool, keys, call, backend, accounts, transactions, expected, ops>>

\* The INSERT: accepted, or it throws and control passes to the catch block.
InsertRecord(r, id) ==
  LET p == proc[r]
  IN /\ p.pc = "insert"
     /\ \A q \in Requests \ {r} : proc[q].txId # id
     /\ proc' = [proc EXCEPT ![r] =
          IF InsertAccepted(id, DataOf(p))
          THEN [p EXCEPT !.pc = "commit", !.txId = id]
          ELSE [p EXCEPT !.pc = "rollback", !.err = "insert"]]
     /\ UNCHANGED <<pool, keys, call, backend, accounts, transactions, expected, ops>>

\* await client.query('COMMIT'): the unit of work is published and its row
\* locks are gone; what is left is the finally block and the return.
CommitWork(r) ==
  LET p == proc[r]
  IN /\ p.pc = "commit"
     /\ accounts' = CommittedAccounts(p)
     /\ transactions' = CommittedTransactions(p)
     /\ expected' = Booked(expected, DataOf(p))
     /\ proc' = [proc EXCEPT ![r] =
          [p EXCEPT !.pc = "release", !.resp = "Created", !.rows = NoRows, !.txId = 0]]
     /\ UNCHANGED <<pool, keys, call, backend, ops>>

\* A statement inside the try block throws (connection lost, statement
\* timeout, ...): control passes to the catch block.
Throw(r) ==
  /\ proc[r].pc \in {"begin", "debit", "credit", "insert", "commit"}
  /\ proc' = [proc EXCEPT ![r] = [@ EXCEPT !.pc = "rollback", !.err = proc[r].pc]]
  /\ UNCHANGED <<pool, keys, call, backend, accounts, transactions, expected, ops>>

\* Call r waits for a row that call q has locked.
WaitsFor(r, q) ==
  /\ r # q
  /\ \/ proc[r].pc = "debit" /\ proc[r].from \in DOMAIN proc[q].rows
     \/ proc[r].pc = "credit" /\ proc[r].to \in DOMAIN proc[q].rows

\* Variant: a lock cycle is not detected, no statement that waits in it is
\* aborted.
DeadlockUndetected(r) ==
  /\ FALSE
  /\ UNCHANGED vars

\* PostgreSQL finds a lock cycle and aborts one of the statements that wait in
\* it: the UPDATE of call r throws (deadlock detected).
DeadlockVictim(r) ==
  /\ \E q \in Requests : WaitsFor(r, q) /\ WaitsFor(q, r)
  /\ proc' = [proc EXCEPT ![r] = [@ EXCEPT !.pc = "rollback", !.err = "deadlock"]]
  /\ UNCHANGED <<pool, keys, call, backend, accounts, transactions, expected, ops>>

\* Variant: no finally block, the release follows the ROLLBACK in the catch
\* block and is skipped when the ROLLBACK throws.
RollbackWorkNoFinally(r, ok) ==
  /\ proc[r].pc = "rollback"
  /\ proc' = [proc EXCEPT ![r] =
       IF ok THEN [@ EXCEPT !.pc = "release", !.resp = "ProcessingFailure",
                            !.rows = NoRows, !.txId = 0]
       ELSE Answered(proc[r], "ProcessingFailure", "rollback")]
  /\ UNCHANGED <<pool, keys, call, backend, accounts, transactions, expected, ops>>

\* catch: await client.query('ROLLBACK'); throw err.  The rows the unit of work
\* wrote are dropped with their locks, by the ROLLBACK or, when the ROLLBACK
\* throws because the connection is gone, by the server ending the session;
\* the error thrown is then that of the ROLLBACK.  Either way the finally
\* block is next.
RollbackWork(r, ok) ==
  /\ proc[r].pc = "rollback"
  /\ proc' = [proc EXCEPT ![r] =
       [@ EXCEPT !.pc = "release", !.resp = "ProcessingFailure",
                 !.err = IF ok THEN @ ELSE "rollback", !.rows = NoRows, !.txId = 0]]
  /\ UNCHANGED <<pool, keys, call, backend, accounts, transactions, expected, ops>>

\* finally: client.release(); then the call returns the Transaction or throws.
Release(r) ==
  /\ proc[r].pc = "release"
  /\ pool' = [pool EXCEPT !.released[r] = @ + 1]
  /\ proc' = [proc EXCEPT ![r] = Answered(proc[r], proc[r].resp, proc[r].err)]
  /\ UNCHANGED <<keys, call, backend, accounts, transactions, expected, ops>>

\* The PostgreSQL store with the sample data and a pool of any size up to
\* PoolSize.
PoolInit ==
  /\ Init
  /\ backend = "pg"
  /\ \E n \in 1..PoolSize : pool = [NoClients EXCEPT !.max = n]

PoolNext ==
  \/ \E r \in Requests, f \in {DepositSource, "a1", "a2"}, t \in AccountIds,
        amt \in Amounts \ {0} : Enter(r, f, t, amt)
  \/ \E r \in Requests : Connect(r)
  \/ \E r \in Requests : Begin(r)
  \/ \E r \in Requests : Debit(r)
  \/ \E r \in Requests : Credit(r)
  \/ \E r \in Requests, id \in TxIds : InsertRecord(r, id)
  \/ \E r \in Requests : CommitWork(r)
  \/ \E r \in Requests : Throw(r)
  \/ \E r \in Requests : DeadlockVictim(r)
  \/ \E r \in Requests, ok \in BOOLEAN : RollbackWork(r, ok)
  \/ \E r \in Requests : Release(r)

\* Concurrent calls of Database.createTransaction.
PoolSpec == PoolInit /\ [][PoolNext]_vars

----------------------------------------------------------------------------
(* C27 *)

\* The calls between their start and their return or throw.
InFlight == {r \in Requests : proc[r].pc \notin {"idle", "done"}}

\* C27: every call of createTransaction that acquires a client of the pool
\* releases it exactly once before it returns or throws, whether it committed,
\* failed and rolled back, or failed and its ROLLBACK failed too: a call holds
\* one client exactly from pool.connect() to client.release() and none
\* otherwise, a finished call has released as many clients as it acquired, the
\* clients checked out never exceed the calls in flight and are none when no
\* call is in flight.
C27_ClientReleased ==
  /\ \A r \in Requests :
       /\ Held(r) = IF proc[r].pc \in WithClient THEN 1 ELSE 0
       /\ pool.released[r] <= 1
       /\ proc[r].pc = "done" => pool.released[r] = pool.acquired[r]
  /\ CheckedOut <= Cardinality(InFlight)
  /\ InFlight = {} => CheckedOut = 0

\* A call whose statement failed and whose ROLLBACK failed too has thrown, its
\* client released once.
C27_Witness ==
  \E r \in Requests :
    /\ proc[r].pc = "done" /\ proc[r].err = "rollback"
    /\ pool.acquired[r] = 1 /\ pool.released[r] = 1

----------------------------------------------------------------------------
(* C28 *)

\* What the runtime and the store guarantee: a continuation runs once the
\* promise it awaits is settled, the pool grants a client when it has one, a
\* statement runs once the rows it needs are unlocked, and a lock cycle is
\* detected and one of its statements aborted.  Nothing obliges a statement to
\* fail otherwise, and no call has to be made.
PoolFairness ==
  \A r \in Requests :
    /\ WF_vars(Connect(r))
    /\ WF_vars(Begin(r))
    /\ WF_vars(Debit(r))
    /\ WF_vars(Credit(r))
    /\ WF_vars(\E id \in TxIds : InsertRecord(r, id))
    /\ WF_vars(CommitWork(r))
    /\ WF_vars(DeadlockVictim(r))
    /\ WF_vars(\E ok \in BOOLEAN : RollbackWork(r, ok))
    /\ WF_vars(Release(r))

PoolLiveSpec == PoolSpec /\ PoolFairness

\* The step is one of a call that was aborted as the victim of a lock cycle.
OfVictim(r) == StepOf(r) /\ (proc[r].err = "deadlock" \/ proc'[r].err = "deadlock")

\* C28: every createTransaction that was started eventually finishes,
\* returning the committed Transaction or throwing after its rollback, under
\* any interleaving of concurrent calls, two opposing transfers that lock the
\* two account rows in opposite order included; and no step of a call aborted
\* out of a lock cycle changes a balance or a record.
C28_EveryCallFinishes ==
  /\ \A r \in Requests : (proc[r].pc \notin {"idle", "done"}) ~> (proc[r].pc = "done")
  /\ [][\A r \in Requests : OfVictim(r) => NothingChanges]_vars

\* Of two opposing transfers in a lock cycle one was aborted and has thrown,
\* the other has committed, and both clients are back in the pool.
C28_Witness ==
  \E r, q \in Requests :
    /\ proc[r].pc = "done" /\ proc[r].err = "deadlock"
    /\ proc[r].resp = "ProcessingFailure"
    /\ proc[q].pc = "done" /\ proc[q].resp = "Created"
    /\ CheckedOut = 0

----------------------------------------------------------------------------
(* C29 *)

\* The sum of the balances of the accounts ids.
RECURSIVE BalanceSum(_)
BalanceSum(ids) ==
  IF ids = {} THEN 0
  ELSE LET a == CHOOSE a \in ids : TRUE
       IN  accounts[a].balance + BalanceSum(ids \ {a})

\* The total held in a currency.
TotalIn(cur) == BalanceSum({a \in DOMAIN accounts : accounts[a].currency = cur})

\* C29: no currency is converted by a transfer: on the step that commits a
\* transfer with fromAccountId # "0" the source account's currency is the
\* transaction's currency, and the destination's, and the total held in each
\* currency stays as it was; a step of a transaction request changes the total
\* held in a currency only when it commits a deposit.
C29_NoConversion ==
  [][\A r \in Requests :
       LET p == proc[r]
       IN /\ (AnswersWith(r, "Created") /\ p.from # DepositSource) =>
               /\ accounts[p.from].currency = p.currency
               /\ accounts[p.to].currency = p.currency
               /\ \A cur \in Currencies : TotalIn(cur)' = TotalIn(cur)
          /\ (StepOf(r) /\ \E cur \in Currencies : TotalIn(cur)' # TotalIn(cur)) =>
               AnswersWith(r, "Created") /\ p.from = DepositSource]_vars

----------------------------------------------------------------------------
(* C30 *)

\* The step is a DELETE request for account id that passed the middleware of
\* its route.
DeleteRequestFor(id) ==
  /\ call'.id = id
  /\ \/ call'.route = "DELETE /:id" /\ call'.next = 1
     \/ call'.route = "DELETE /:accountId" /\ call'.adminNext = 1

\* C30: soft deletion is permanent and idempotent in effect: no request sets
\* the deleted flag of an account back to false or removes the account; on a
\* deleted account deleteAccount changes nothing, and a DELETE request that
\* reaches the handler is answered 404 and changes nothing; updateAccount on a
\* deleted account, and so a PUT or PATCH request for it, changes none of its
\* fields.
C30_DeletedStaysDeleted ==
  [][\A id \in DOMAIN accounts :
       accounts[id].deleted =>
         /\ id \in DOMAIN accounts' /\ accounts'[id].deleted
         /\ deleteAccount(id) = accounts
         /\ \A updates \in UpdateBodies : updateAccount(id, updates) = accounts
         /\ DeleteRequestFor(id) => call'.status = 404 /\ accounts' = accounts
         /\ (call'.route \in {"PUT /:id", "PATCH /:accountId"} /\ call'.id = id) =>
              accounts'[id] = accounts[id]]_vars

====
